---- MODULE Spec2Model ----
(***************************************************************************)
(* Model of sistema_bancario_2.py: the account transaction engine          *)
(* (Deposito, Saque, Historico, Conta) and the Banco registry that owns    *)
(* the accounts.  Amounts are integers (whole currency units).             *)
(***************************************************************************)
EXTENDS Integers, Sequences, FiniteSets, TLC

VARIABLES
    clientes,   \* Banco._clientes: sequence of Cliente records
    contas,     \* Banco._contas: sequence of Conta records
    relogio,    \* the latest value read from datetime.now()
    ultima,     \* the call made by the latest step, what it returned and printed
    geradores,  \* the generator objects returned by gerar_relatorio and still held
    menu        \* main: the option and answers typed in the latest turn of the
                \* loop, and whether the loop still runs

vars == <<clientes, contas, relogio, ultima, geradores, menu>>

(***************************************************************************)
(* Bounds of the model.                                                    *)
(***************************************************************************)
\* longest history explored for one account
MaxHist == 5
\* the clock is read at the first and at the last second of successive days:
\* the number of such instants after the first one
MaxInstante == 3

\* amounts passed to depositar
ValoresDeposito == {-100, 0, 600}

\* amounts passed to sacar
ValoresSaque == {-100, 0, 100, 600}

\* answers typed at the report's filter prompt, after upper()
Filtros == {"D", "S", "", "X"}

(***************************************************************************)
(* The clock and its formatting.                                           *)
(***************************************************************************)
\* the values datetime.now() can return in the model: 00:00:00 and 23:59:59
\* of the days from 01/01/2024 on
Instantes ==
    {[ano |-> 2024, mes |-> 1, dia |-> 1 + (k \div 2), seg |-> (k % 2) * 86399] :
        k \in 0..MaxInstante}

\* t is not later than u
NaoDepois(t, u) == t.dia < u.dia \/ (t.dia = u.dia /\ t.seg <= u.seg)

\* the readings a non-decreasing clock can give after the reading t
Leituras(t) == {u \in Instantes : NaoDepois(t, u)}

Digitos == <<"0", "1", "2", "3", "4", "5", "6", "7", "8", "9">>

RECURSIVE Pad(_, _)
\* n in decimal, zero-padded to w characters (the %d, %m, %Y, %H, %M, %S fields)
Pad(n, w) == IF w = 0 THEN <<>> ELSE Append(Pad(n \div 10, w - 1), Digitos[(n % 10) + 1])

\* the text of the date of every instant, as %d/%m/%Y
DataDe ==
    [t \in Instantes |->
        Pad(t.dia, 2) \o <<"/">> \o Pad(t.mes, 2) \o <<"/">> \o Pad(t.ano, 4)]

\* the text of the time of day of every instant, as %H:%M:%S
HoraDe ==
    [t \in Instantes |->
        Pad(t.seg \div 3600, 2) \o <<":">> \o Pad((t.seg \div 60) % 60, 2)
            \o <<":">> \o Pad(t.seg % 60, 2)]

\* strftime('%d/%m/%Y')
strftime_data(t) == DataDe[t]

\* strftime('%d/%m/%Y %H:%M:%S')
strftime_data_hora(t) == DataDe[t] \o <<" ">> \o HoraDe[t]

\* str.startswith
startswith(s, prefixo) ==
    Len(prefixo) <= Len(s) /\ SubSeq(s, 1, Len(prefixo)) = prefixo

(***************************************************************************)
(* Historico.                                                              *)
(***************************************************************************)
\* adicionar_transacao inserting the entry at the front of the list
adicionar_transacao_NaFrente(transacoes, tipo, valor, t) ==
    <<[tipo |-> tipo, valor |-> valor, data |-> strftime_data_hora(t)]>> \o transacoes

\* adicionar_transacao stamping the date without the time of day
adicionar_transacao_SoData(transacoes, tipo, valor, t) ==
    Append(transacoes, [tipo |-> tipo, valor |-> valor, data |-> strftime_data(t)])

\* Historico.adicionar_transacao, stamped with the clock reading t
adicionar_transacao(transacoes, tipo, valor, t) ==
    Append(transacoes, [tipo |-> tipo, valor |-> valor, data |-> strftime_data_hora(t)])

RECURSIVE gerar_relatorio_Invertido(_, _)
\* gerar_relatorio yielding the latest entry first
gerar_relatorio_Invertido(transacoes, tipo) ==
    IF transacoes = <<>> THEN <<>>
    ELSE LET transacao == Head(transacoes)
             resto == gerar_relatorio_Invertido(Tail(transacoes), tipo)
         IN IF tipo = "None" \/ transacao.tipo = tipo
            THEN resto \o <<transacao>>
            ELSE resto

RECURSIVE gerar_relatorio(_, _)
\* Historico.gerar_relatorio consumed to the end; tipo "None" is Python's None
gerar_relatorio(transacoes, tipo) ==
    IF transacoes = <<>> THEN <<>>
    ELSE LET transacao == Head(transacoes)
             resto == gerar_relatorio(Tail(transacoes), tipo)
         IN IF tipo = "None" \/ transacao.tipo = tipo
            THEN <<transacao>> \o resto
            ELSE resto

(***************************************************************************)
(* Conta.                                                                  *)
(***************************************************************************)
\* Conta.__init__ with its default limite and limite_saques
Conta(numero, agencia, cliente) ==
    [numero |-> numero, agencia |-> agencia, cliente |-> cliente, saldo |-> 0,
     limite |-> 500, limite_saques |-> 3, historico |-> <<>>]

RECURSIVE ContarSaques_SemData(_, _)
\* the loop of get_numero_saques_hoje counting the SAQUE entries of every date
ContarSaques_SemData(transacoes, data_hoje) ==
    IF transacoes = <<>> THEN 0
    ELSE (IF Head(transacoes).tipo = "SAQUE" THEN 1 ELSE 0)
             + ContarSaques_SemData(Tail(transacoes), data_hoje)

RECURSIVE ContarSaques(_, _)
\* the loop of Conta.get_numero_saques_hoje: the SAQUE entries whose data
\* starts with data_hoje
ContarSaques(transacoes, data_hoje) ==
    IF transacoes = <<>> THEN 0
    ELSE LET transacao == Head(transacoes)
         IN (IF transacao.tipo = "SAQUE" /\ startswith(transacao.data, data_hoje)
             THEN 1 ELSE 0) + ContarSaques(Tail(transacoes), data_hoje)

\* Conta.get_numero_saques_hoje, with the clock reading t
get_numero_saques_hoje(conta, t) ==
    ContarSaques(conta.historico, strftime_data(t))

(***************************************************************************)
(* Transactions.  registrar returns the account as it leaves it, the value *)
(* it returns and the message it prints (without the formatted amounts).   *)
(***************************************************************************)
\* Deposito.registrar assigning the amount to the balance instead of adding it
DepositoRegistrar_Atribui(conta, valor, t) ==
    IF valor <= 0
    THEN [conta |-> conta, ret |-> "False", msg |-> "Operação falhou! Valor deve ser positivo."]
    ELSE [conta |-> [conta EXCEPT !.saldo = valor,
                                  !.historico = adicionar_transacao(@, "DEPÓSITO", valor, t)],
          ret |-> "True", msg |-> "Depósito realizado com sucesso!"]

\* Deposito.registrar rejecting only negative amounts
DepositoRegistrar_AceitaZero(conta, valor, t) ==
    IF valor < 0
    THEN [conta |-> conta, ret |-> "False", msg |-> "Operação falhou! Valor deve ser positivo."]
    ELSE [conta |-> [conta EXCEPT !.saldo = @ + valor,
                                  !.historico = adicionar_transacao(@, "DEPÓSITO", valor, t)],
          ret |-> "True", msg |-> "Depósito realizado com sucesso!"]

\* Deposito.registrar; t is the clock reading of adicionar_transacao
DepositoRegistrar(conta, valor, t) ==
    IF valor <= 0
    THEN [conta |-> conta, ret |-> "False", msg |-> "Operação falhou! Valor deve ser positivo."]
    ELSE [conta |-> [conta EXCEPT !.saldo = @ + valor,
                                  !.historico = adicionar_transacao(@, "DEPÓSITO", valor, t)],
          ret |-> "True", msg |-> "Depósito realizado com sucesso!"]

\* Saque.registrar without the check of the amount against the balance
SaqueRegistrar_SemSaldo(conta, valor, t1, t2) ==
    IF valor <= 0
    THEN [conta |-> conta, ret |-> "False", msg |-> "Operação falhou! Valor deve ser positivo."]
    ELSE IF valor > conta.limite
    THEN [conta |-> conta, ret |-> "False", msg |-> "Operação falhou! Limite excedido."]
    ELSE IF get_numero_saques_hoje(conta, t1) >= conta.limite_saques
    THEN [conta |-> conta, ret |-> "False",
          msg |-> "Operação falhou! Limite de saques diários excedido."]
    ELSE [conta |-> [conta EXCEPT !.saldo = @ - valor,
                                  !.historico = adicionar_transacao(@, "SAQUE", valor, t2)],
          ret |-> "True", msg |-> "Saque realizado com sucesso!"]

\* Saque.registrar letting one withdrawal more than the daily cap through
SaqueRegistrar_MaiorQue(conta, valor, t1, t2) ==
    IF valor <= 0
    THEN [conta |-> conta, ret |-> "False", msg |-> "Operação falhou! Valor deve ser positivo."]
    ELSE IF valor > conta.saldo
    THEN [conta |-> conta, ret |-> "False", msg |-> "Operação falhou! Saldo insuficiente."]
    ELSE IF valor > conta.limite
    THEN [conta |-> conta, ret |-> "False", msg |-> "Operação falhou! Limite excedido."]
    ELSE IF get_numero_saques_hoje(conta, t1) > conta.limite_saques
    THEN [conta |-> conta, ret |-> "False",
          msg |-> "Operação falhou! Limite de saques diários excedido."]
    ELSE [conta |-> [conta EXCEPT !.saldo = @ - valor,
                                  !.historico = adicionar_transacao(@, "SAQUE", valor, t2)],
          ret |-> "True", msg |-> "Saque realizado com sucesso!"]

\* Saque.registrar checking the limit before the balance
SaqueRegistrar_LimiteAntes(conta, valor, t1, t2) ==
    IF valor <= 0
    THEN [conta |-> conta, ret |-> "False", msg |-> "Operação falhou! Valor deve ser positivo."]
    ELSE IF valor > conta.limite
    THEN [conta |-> conta, ret |-> "False", msg |-> "Operação falhou! Limite excedido."]
    ELSE IF valor > conta.saldo
    THEN [conta |-> conta, ret |-> "False", msg |-> "Operação falhou! Saldo insuficiente."]
    ELSE IF get_numero_saques_hoje(conta, t1) >= conta.limite_saques
    THEN [conta |-> conta, ret |-> "False",
          msg |-> "Operação falhou! Limite de saques diários excedido."]
    ELSE [conta |-> [conta EXCEPT !.saldo = @ - valor,
                                  !.historico = adicionar_transacao(@, "SAQUE", valor, t2)],
          ret |-> "True", msg |-> "Saque realizado com sucesso!"]

\* Saque.registrar printing the message of the amount check at the balance check
SaqueRegistrar_MensagemUnica(conta, valor, t1, t2) ==
    IF valor <= 0
    THEN [conta |-> conta, ret |-> "False", msg |-> "Operação falhou! Valor deve ser positivo."]
    ELSE IF valor > conta.saldo
    THEN [conta |-> conta, ret |-> "False", msg |-> "Operação falhou! Valor deve ser positivo."]
    ELSE IF valor > conta.limite
    THEN [conta |-> conta, ret |-> "False", msg |-> "Operação falhou! Limite excedido."]
    ELSE IF get_numero_saques_hoje(conta, t1) >= conta.limite_saques
    THEN [conta |-> conta, ret |-> "False",
          msg |-> "Operação falhou! Limite de saques diários excedido."]
    ELSE [conta |-> [conta EXCEPT !.saldo = @ - valor,
                                  !.historico = adicionar_transacao(@, "SAQUE", valor, t2)],
          ret |-> "True", msg |-> "Saque realizado com sucesso!"]

\* Saque.registrar debiting the balance before it counts today's withdrawals
SaqueRegistrar_DebitaAntes(conta, valor, t1, t2) ==
    IF valor <= 0
    THEN [conta |-> conta, ret |-> "False", msg |-> "Operação falhou! Valor deve ser positivo."]
    ELSE IF valor > conta.saldo
    THEN [conta |-> conta, ret |-> "False", msg |-> "Operação falhou! Saldo insuficiente."]
    ELSE IF valor > conta.limite
    THEN [conta |-> conta, ret |-> "False", msg |-> "Operação falhou! Limite excedido."]
    ELSE IF get_numero_saques_hoje(conta, t1) >= conta.limite_saques
    THEN [conta |-> [conta EXCEPT !.saldo = @ - valor], ret |-> "False",
          msg |-> "Operação falhou! Limite de saques diários excedido."]
    ELSE [conta |-> [conta EXCEPT !.saldo = @ - valor,
                                  !.historico = adicionar_transacao(@, "SAQUE", valor, t2)],
          ret |-> "True", msg |-> "Saque realizado com sucesso!"]

\* Saque.registrar; t1 is the clock reading of get_numero_saques_hoje and t2
\* that of adicionar_transacao
SaqueRegistrar(conta, valor, t1, t2) ==
    IF valor <= 0
    THEN [conta |-> conta, ret |-> "False", msg |-> "Operação falhou! Valor deve ser positivo."]
    ELSE IF valor > conta.saldo
    THEN [conta |-> conta, ret |-> "False", msg |-> "Operação falhou! Saldo insuficiente."]
    ELSE IF valor > conta.limite
    THEN [conta |-> conta, ret |-> "False", msg |-> "Operação falhou! Limite excedido."]
    ELSE IF get_numero_saques_hoje(conta, t1) >= conta.limite_saques
    THEN [conta |-> conta, ret |-> "False", msg |-> "Operação falhou! Limite de saques diários excedido."]
    ELSE [conta |-> [conta EXCEPT !.saldo = @ - valor,
                                  !.historico = adicionar_transacao(@, "SAQUE", valor, t2)],
          ret |-> "True", msg |-> "Saque realizado com sucesso!"]

(***************************************************************************)
(* Banco.                                                                  *)
(***************************************************************************)
\* Cliente.__init__
Cliente(nome, cpf) == [nome |-> nome, cpf |-> cpf, contas |-> <<>>]

\* the record of a call: which operation, on which account, with which
\* arguments, the clock reading it took the current date from, what it
\* returned and what it printed
Chamada(op, n, valor, tipo, hoje, ret, msg, relatorio) ==
    [op |-> op, conta |-> n, valor |-> valor, tipo |-> tipo, hoje |-> hoje,
     ret |-> ret, msg |-> msg, relatorio |-> relatorio]

\* the names under which the caller holds the generators of two calls of
\* gerar_relatorio
Nomes == {"primeiro", "segundo"}

\* no generator held under a name
SemGerador == [estado |-> "nenhum", conta |-> 0, tipo |-> "None", indice |-> 0,
               produzidos |-> <<>>]

\* a turn of main's loop: the option typed, the CPF typed, the account choice
\* typed (none when it is not asked) and the state of the loop
Turno(opcao, cpf, escolha, estado) ==
    [opcao |-> opcao, cpf |-> cpf, escolha |-> escolha, estado |-> estado]

\* a bank with one client who holds one new account: Banco(), criar_cliente,
\* criar_conta
Init ==
    /\ geradores = [g \in Nomes |-> SemGerador]
    /\ menu = Turno("", "", <<>>, "rodando")
    /\ clientes = <<[Cliente("Ana", "111") EXCEPT !.contas = <<1>>]>>
    /\ contas = <<Conta(1, "0001", "111")>>
    /\ relogio = [ano |-> 2024, mes |-> 1, dia |-> 1, seg |-> 0]
    /\ ultima = Chamada("criar_conta", 1, 0, "None", relogio, "Conta",
                        "Conta criada com sucesso!", <<>>)

\* a call that appends to the history stays within the explored length
Cabe(resultado) == Len(resultado.conta.historico) <= MaxHist

\* depositar applied to the first account of the bank, whichever is selected
depositar_NaPrimeira(n, valor) ==
    \E t \in Leituras(relogio) :
        LET r == DepositoRegistrar(contas[1], valor, t)
        IN /\ Cabe(r)
           /\ contas' = [contas EXCEPT ![1] = r.conta]
           /\ relogio' = t
           /\ ultima' = Chamada("depositar", n, valor, "None", t, r.ret, r.msg, <<>>)
           /\ UNCHANGED clientes

\* Conta.depositar(valor) on the n-th account of the bank
depositar(n, valor) ==
    \E t \in Leituras(relogio) :
        LET r == DepositoRegistrar(contas[n], valor, t)
        IN /\ Cabe(r)
           /\ contas' = [contas EXCEPT ![n] = r.conta]
           /\ relogio' = t
           /\ ultima' = Chamada("depositar", n, valor, "None", t, r.ret, r.msg, <<>>)
           /\ UNCHANGED clientes

\* Conta.sacar(valor) on the n-th account of the bank; a refused withdrawal
\* returns before the clock is read a second time
sacar(n, valor) ==
    \E t1 \in Leituras(relogio) : \E t2 \in Leituras(t1) :
        LET r == SaqueRegistrar(contas[n], valor, t1, t2)
        IN /\ r.ret = "False" => t2 = t1
           /\ Cabe(r)
           /\ contas' = [contas EXCEPT ![n] = r.conta]
           /\ relogio' = IF r.ret = "True" THEN t2 ELSE t1
           /\ ultima' = Chamada("sacar", n, valor, "None", t1, r.ret, r.msg, <<>>)
           /\ UNCHANGED clientes

\* main, option R: the kind selected by the answer to the filter prompt
TipoDoFiltro(tipo_filtro) ==
    IF tipo_filtro = "D" THEN "DEPÓSITO"
    ELSE IF tipo_filtro = "S" THEN "SAQUE"
    ELSE "None"

\* main, option R on the n-th account: prints every entry gerar_relatorio yields
relatorio(n, tipo_filtro) ==
    LET tipo == TipoDoFiltro(tipo_filtro)
    IN /\ ultima' = Chamada("relatorio", n, 0, tipo, relogio, "None", "RELATÓRIO DE TRANSAÇÕES",
                            gerar_relatorio(contas[n].historico, tipo))
       /\ UNCHANGED <<clientes, contas, relogio>>

\* a call made on the account itself: no generator is held and main's loop
\* takes no turn
SemMenu == UNCHANGED <<geradores, menu>>

Next ==
    \/ SemMenu /\ \E n \in 1..Len(contas) : \E valor \in ValoresDeposito : depositar(n, valor)
    \/ SemMenu /\ \E n \in 1..Len(contas) : \E valor \in ValoresSaque : sacar(n, valor)
    \/ SemMenu /\ \E n \in 1..Len(contas) : \E tipo_filtro \in Filtros : relatorio(n, tipo_filtro)

Spec == Init /\ [][Next]_vars

(***************************************************************************)
(* Properties.                                                             *)
(***************************************************************************)
\* the latest step was a call of depositar or sacar recorded in u
Movimento(u) == u.op \in {"depositar", "sacar"}

\* the kind of entry the operation op records
TipoDe(op) == IF op = "depositar" THEN "DEPÓSITO" ELSE "SAQUE"

RECURSIVE Soma(_, _)
\* the sum of the amounts of the entries of kind tipo
Soma(transacoes, tipo) ==
    IF transacoes = <<>> THEN 0
    ELSE (IF Head(transacoes).tipo = tipo THEN Head(transacoes).valor ELSE 0)
             + Soma(Tail(transacoes), tipo)

\* the entries of kind SAQUE whose timestamp carries the date of the instant t
SaquesNaData(transacoes, t) ==
    Cardinality({i \in DOMAIN transacoes :
        /\ transacoes[i].tipo = "SAQUE"
        /\ SubSeq(transacoes[i].data, 1, 10) = strftime_data(t)})

\* C1: the balance of every account is >= 0 in every reachable state, whatever
\* deposits and withdrawals (accepted or rejected, of positive, zero or
\* negative amounts, on any dates) came before.
C1_SaldoNaoNegativo == \A n \in DOMAIN contas : contas[n].saldo >= 0

\* a withdrawal of more than a positive balance has just been refused
C1_Witness ==
    /\ ultima.op = "sacar" /\ ultima.ret = "False"
    /\ contas[ultima.conta].saldo > 0
    /\ ultima.valor > contas[ultima.conta].saldo

\* C2: the balance of every account equals the sum of its DEPÓSITO entries
\* minus the sum of its SAQUE entries, in every reachable state.
C2_Conservacao ==
    \A n \in DOMAIN contas :
        contas[n].saldo = Soma(contas[n].historico, "DEPÓSITO")
                              - Soma(contas[n].historico, "SAQUE")

\* a call has just been rejected on an account that holds entries of both kinds
C2_Witness ==
    /\ Movimento(ultima) /\ ultima.ret = "False"
    /\ Soma(contas[ultima.conta].historico, "DEPÓSITO") > 0
    /\ Soma(contas[ultima.conta].historico, "SAQUE") > 0

\* C3: a step in which depositar or sacar returns False, for whatever reason,
\* leaves the balance and the history of every account as they were.
C3_RejeicaoSemEfeito ==
    [][(Movimento(ultima') /\ ultima'.ret = "False") => contas' = contas]_vars

\* a withdrawal has just been refused by the daily cap on an account that has
\* a positive balance and a history
C3_Witness ==
    /\ ultima.op = "sacar" /\ ultima.ret = "False"
    /\ ultima.msg = "Operação falhou! Limite de saques diários excedido."
    /\ contas[ultima.conta].saldo > 0
    /\ Len(contas[ultima.conta].historico) > 3

\* C4: a step in which depositar(v) or sacar(v) returns True appends exactly
\* one entry to the end of the account's history, carrying the kind of the
\* operation, the amount v and the date and time of the application; the
\* balance changes by +v for a deposit and by -v for a withdrawal.
C4_AceitaAcrescentaUma ==
    [][(Movimento(ultima') /\ ultima'.ret = "True") =>
          LET antes == contas[ultima'.conta]
              depois == contas'[ultima'.conta]
              v == ultima'.valor
          IN /\ Len(depois.historico) = Len(antes.historico) + 1
             /\ SubSeq(depois.historico, 1, Len(antes.historico)) = antes.historico
             /\ depois.historico[Len(depois.historico)] =
                    [tipo |-> TipoDe(ultima'.op), valor |-> v,
                     data |-> strftime_data_hora(relogio')]
             /\ depois.saldo = antes.saldo + (IF ultima'.op = "depositar" THEN v ELSE 0 - v)
      ]_vars

\* a withdrawal has just been accepted in the last second of the second day
\* and its entry reads 02/01/2024 23:59:59
C4_Witness ==
    /\ ultima.op = "sacar" /\ ultima.ret = "True"
    /\ LET h == contas[ultima.conta].historico
       IN /\ Len(h) > 1
          /\ h[Len(h)].data = <<"0", "2", "/", "0", "1", "/", "2", "0", "2", "4", " ",
                                "2", "3", ":", "5", "9", ":", "5", "9">>

\* C5: a deposit is accepted if and only if its amount is > 0, in every
\* account state: an amount <= 0 is rejected as an invalid amount, an amount
\* > 0 succeeds whatever the balance, the limits, today's withdrawals and
\* deposits, and the date.
C5_DepositoSseMaiorQueZero ==
    /\ ultima.op = "depositar" =>
          /\ ultima.ret = "True" <=> ultima.valor > 0
          /\ ultima.valor <= 0 =>
                ultima.msg = "Operação falhou! Valor deve ser positivo."
    /\ \A n \in DOMAIN contas : \A valor \in ValoresDeposito \cup ValoresSaque :
          \A t \in Leituras(relogio) :
          LET r == DepositoRegistrar(contas[n], valor, t)
          IN /\ r.ret = "True" <=> valor > 0
             /\ r.ret = "False" <=> valor <= 0
             /\ valor <= 0 => r.msg = "Operação falhou! Valor deve ser positivo."

\* a deposit has just been accepted on a day that already has as many
\* withdrawals as the daily cap allows
C5_Witness ==
    /\ ultima.op = "depositar" /\ ultima.ret = "True"
    /\ SaquesNaData(contas[ultima.conta].historico, ultima.hoje)
           >= contas[ultima.conta].limite_saques

\* C6: sacar(v) is accepted if and only if v > 0, v <= balance, v <= limit
\* and today's withdrawals are fewer than the daily cap; a refusal prints the
\* message of the first failing check in the order invalid amount,
\* insufficient balance, limit exceeded, daily cap exceeded.
C6_SaqueOrdemDasRecusas ==
    [][ultima'.op = "sacar" =>
          LET c == contas[ultima'.conta]
              v == ultima'.valor
              hoje == SaquesNaData(c.historico, ultima'.hoje)
          IN /\ ultima'.ret \in {"True", "False"}
             /\ ultima'.ret = "True" <=>
                    (v > 0 /\ v <= c.saldo /\ v <= c.limite /\ hoje < c.limite_saques)
             /\ v <= 0 => ultima'.msg = "Operação falhou! Valor deve ser positivo."
             /\ (v > 0 /\ v > c.saldo) =>
                    ultima'.msg = "Operação falhou! Saldo insuficiente."
             /\ (v > 0 /\ v <= c.saldo /\ v > c.limite) =>
                    ultima'.msg = "Operação falhou! Limite excedido."
             /\ (v > 0 /\ v <= c.saldo /\ v <= c.limite /\ hoje >= c.limite_saques) =>
                    ultima'.msg = "Operação falhou! Limite de saques diários excedido."
      ]_vars

\* a withdrawal within the balance and above the limit has just been refused
\* as limit exceeded on a day whose withdrawals already reach the daily cap
C6_Witness ==
    /\ ultima.op = "sacar" /\ ultima.ret = "False"
    /\ ultima.msg = "Operação falhou! Limite excedido."
    /\ ultima.valor <= contas[ultima.conta].saldo
    /\ SaquesNaData(contas[ultima.conta].historico, ultima.hoje)
           >= contas[ultima.conta].limite_saques

\* C7: the daily cap counts the withdrawals stamped with today's date only: a
\* withdrawal of an amount > 0, <= balance and <= limit is refused by the
\* daily cap exactly when the SAQUE entries of today's date reach the cap -
\* deposits and the withdrawals of other dates do not count - and a withdrawal
\* refused by the cap is refused again on the same date and accepted when it
\* is repeated on a later date.
C7_LimiteDiarioPorData ==
    [][ultima'.op = "sacar" =>
          LET c == contas[ultima'.conta]
              v == ultima'.valor
              valido == v > 0 /\ v <= c.saldo /\ v <= c.limite
              repetido == /\ ultima.op = "sacar" /\ ultima.ret = "False"
                          /\ ultima.msg = "Operação falhou! Limite de saques diários excedido."
                          /\ ultima.conta = ultima'.conta /\ ultima.valor = v
          IN /\ valido =>
                    IF SaquesNaData(c.historico, ultima'.hoje) >= c.limite_saques
                    THEN /\ ultima'.ret = "False"
                         /\ ultima'.msg = "Operação falhou! Limite de saques diários excedido."
                    ELSE ultima'.ret = "True"
             /\ repetido =>
                    IF ultima'.hoje.dia = ultima.hoje.dia
                    THEN ultima'.ret = "False"
                    ELSE ultima'.ret = "True"
      ]_vars

\* a withdrawal has just been accepted on the second day although the first
\* day holds as many withdrawals as the daily cap allows
C7_Witness ==
    /\ ultima.op = "sacar" /\ ultima.ret = "True" /\ ultima.hoje.dia = 2
    /\ SaquesNaData(contas[ultima.conta].historico, [ultima.hoje EXCEPT !.dia = 1])
           >= contas[ultima.conta].limite_saques

\* the reason for which the call u is refused on the account c, or Applied
Motivo(c, u) ==
    IF u.valor <= 0 THEN "InvalidAmount"
    ELSE IF u.op = "depositar" THEN "Applied"
    ELSE IF u.valor > c.saldo THEN "InsufficientFunds"
    ELSE IF u.valor > c.limite THEN "LimitExceeded"
    ELSE IF SaquesNaData(c.historico, u.hoje) >= c.limite_saques THEN "DailyLimitExceeded"
    ELSE "Applied"

\* the step follows a refused call with a call on the same account that the
\* state of the account refuses too
DuasRecusas ==
    /\ Movimento(ultima) /\ ultima.ret = "False"
    /\ Movimento(ultima') /\ ultima'.conta = ultima.conta
    /\ Motivo(contas[ultima.conta], ultima') # "Applied"

Prefixo(s, t) == Len(s) <= Len(t) /\ SubSeq(t, 1, Len(s)) = s

\* C9: the history of every account is append-only: across every step the
\* history before the step is a prefix of the history after it.
C9_HistoricoSoCresce ==
    [][\A n \in DOMAIN contas :
          /\ n \in DOMAIN contas'
          /\ Prefixo(contas[n].historico, contas'[n].historico)]_vars

\* a report has just been printed for a history that holds a withdrawal after
\* two other entries
C9_Witness ==
    /\ ultima.op = "relatorio"
    /\ LET h == contas[ultima.conta].historico
       IN Len(h) > 2 /\ h[1].tipo = "DEPÓSITO" /\ h[Len(h)].tipo = "SAQUE"

\* the positions of the history h that a report of kind tipo selects
Selecionadas(h, tipo) == {i \in DOMAIN h : tipo = "None" \/ h[i].tipo = tipo}

\* C10: the report of kind tipo holds exactly the entries of that kind, each
\* once and in insertion order, and the report of None holds every entry in
\* insertion order; after 2 deposits and 3 withdrawals the SAQUE report has 3
\* entries and the unfiltered one 5.
C10_RelatorioFiltra ==
    ultima.op = "relatorio" =>
        LET h == contas[ultima.conta].historico
            rel == ultima.relatorio
            Escolhida(e) == ultima.tipo = "None" \/ e.tipo = ultima.tipo
        IN /\ rel = SelectSeq(h, Escolhida)
           /\ Len(rel) = Cardinality(Selecionadas(h, ultima.tipo))
           /\ ultima.tipo = "None" => rel = h
           /\ (Cardinality(Selecionadas(h, "DEPÓSITO")) = 2
                   /\ Cardinality(Selecionadas(h, "SAQUE")) = 3) =>
                  /\ ultima.tipo = "SAQUE" => Len(rel) = 3
                  /\ ultima.tipo = "None" => Len(rel) = 5

\* the SAQUE report of a history of 2 deposits and 3 withdrawals, made at
\* different times, has just been printed
C10_Witness ==
    /\ ultima.op = "relatorio" /\ ultima.tipo = "SAQUE"
    /\ Len(ultima.relatorio) = 3
    /\ ultima.relatorio[1].data # ultima.relatorio[3].data
    /\ Cardinality(Selecionadas(contas[ultima.conta].historico, "DEPÓSITO")) = 2

(***************************************************************************)
(* The generator returned by Historico.gerar_relatorio, consumed one item  *)
(* at a time.                                                              *)
(***************************************************************************)
\* longest history whose reports are consumed item by item
MaxHistGerador == 3

\* the kinds gerar_relatorio is called with; "None" is Python's None
Tipos == {"None", "DEPÓSITO", "SAQUE"}

RECURSIVE ProximaPosicao(_, _, _)
\* the loop of gerar_relatorio resumed after position i: the position of the
\* next entry it yields, 0 when the list ends first
ProximaPosicao(transacoes, tipo, i) ==
    IF i >= Len(transacoes) THEN 0
    ELSE IF tipo = "None" \/ transacoes[i + 1].tipo = tipo THEN i + 1
    ELSE ProximaPosicao(transacoes, tipo, i + 1)

\* next() on generators that share one position in the list
next_gerador_CursorUnico(gs, g) ==
    LET transacoes == contas[gs[g].conta].historico
        j == ProximaPosicao(transacoes, gs[g].tipo, gs[g].indice)
    IN IF gs[g].estado = "terminado" THEN gs
       ELSE IF j = 0
       THEN [x \in DOMAIN gs |->
                IF x = g THEN [gs[x] EXCEPT !.estado = "terminado", !.indice = Len(transacoes)]
                ELSE [gs[x] EXCEPT !.indice = Len(transacoes)]]
       ELSE [x \in DOMAIN gs |->
                IF x = g THEN [gs[x] EXCEPT !.indice = j,
                                            !.produzidos = Append(@, transacoes[j])]
                ELSE [gs[x] EXCEPT !.indice = j]]

\* next() on the generator held under the name g: the generators after it
next_gerador(gs, g) ==
    LET transacoes == contas[gs[g].conta].historico
        j == ProximaPosicao(transacoes, gs[g].tipo, gs[g].indice)
    IN IF gs[g].estado = "terminado" THEN gs
       ELSE IF j = 0
       THEN [gs EXCEPT ![g].estado = "terminado", ![g].indice = Len(transacoes)]
       ELSE [gs EXCEPT ![g].indice = j, ![g].produzidos = Append(@, transacoes[j])]

\* g = conta.historico.gerar_relatorio(tipo) on the n-th account: a new
\* generator, of which nothing has run
chamar_gerar_relatorio(g, n, tipo) ==
    /\ geradores[g].estado = "nenhum"
    /\ geradores' = [geradores EXCEPT ![g] =
           [estado |-> "suspenso", conta |-> n, tipo |-> tipo, indice |-> 0,
            produzidos |-> <<>>]]
    /\ ultima' = Chamada("gerar_relatorio", n, 0, tipo, relogio, "generator", "", <<>>)
    /\ UNCHANGED <<clientes, contas, relogio, menu>>

\* next(g): the generator runs to its next yield or to its end
next(g) ==
    /\ geradores[g].estado \in {"suspenso", "terminado"}
    /\ geradores' = next_gerador(geradores, g)
    /\ ultima' = Chamada("next", geradores[g].conta, 0, geradores[g].tipo, relogio,
                         IF geradores'[g].estado = "terminado" THEN "StopIteration" ELSE "dict",
                         "",
                         IF geradores'[g].estado = "terminado" THEN <<>>
                         ELSE <<geradores'[g].produzidos[Len(geradores'[g].produzidos)]>>)
    /\ UNCHANGED <<clientes, contas, relogio, menu>>

\* the history is built, within one reading of the clock, before the first
\* generator is made
Construindo(n) ==
    /\ \A g \in Nomes : geradores[g].estado = "nenhum"
    /\ Len(contas[n].historico) < MaxHistGerador
    /\ relogio' = relogio
    /\ SemMenu

NextGerador ==
    \/ \E n \in 1..Len(contas) : \E valor \in ValoresDeposito :
           Construindo(n) /\ depositar(n, valor)
    \/ \E n \in 1..Len(contas) : \E valor \in ValoresSaque :
           Construindo(n) /\ sacar(n, valor)
    \/ \E g \in Nomes : \E n \in 1..Len(contas) : \E tipo \in Tipos :
           chamar_gerar_relatorio(g, n, tipo)
    \/ \E g \in Nomes : next(g)

SpecGerador == Init /\ [][NextGerador]_vars

\* the entries of kind tipo of the history of the n-th account, in order
Completo(n, tipo) ==
    LET Escolhida(e) == tipo = "None" \/ e.tipo = tipo
    IN SelectSeq(contas[n].historico, Escolhida)

\* C11: the report is re-iterable from scratch: two generators made by
\* gerar_relatorio on an unchanged history and consumed in any interleaving
\* each yield the full sequence of the entries of their kind; what one has
\* yielded so far is a prefix of it, and a step of one leaves the other as it
\* was.
C11_RelatorioReiteravel ==
    /\ [](\A g \in Nomes :
            LET gen == geradores[g]
            IN gen.estado # "nenhum" =>
                  /\ Prefixo(gen.produzidos, Completo(gen.conta, gen.tipo))
                  /\ gen.estado = "terminado" =>
                         gen.produzidos = Completo(gen.conta, gen.tipo))
    /\ [][\A a \in Nomes : \A b \in Nomes \ {a} :
             geradores'[a] # geradores[a] => geradores'[b] = geradores[b]]_vars

\* both generators of the SAQUE report of a history that starts with a
\* deposit have been consumed to the end, and each has yielded 2 entries
C11_Witness ==
    /\ \A g \in Nomes :
          /\ geradores[g].estado = "terminado" /\ geradores[g].tipo = "SAQUE"
          /\ Len(geradores[g].produzidos) = 2
    /\ contas[1].historico[1].tipo = "DEPÓSITO"

(***************************************************************************)
(* The registry of Banco and the menu of main.                             *)
(***************************************************************************)
\* most accounts the bank is explored with
MaxContas == 2
\* most entries the histories of the bank's accounts hold together
MaxMovimentos == 2

\* the CPFs typed at the prompts
CPFs == {"111", "222"}

\* the names typed at the prompt of option NU
NomesCliente == {"Ana", "Bia"}

\* the amounts typed at the prompts of options D and S
DepositosMenu == {0, 600}
SaquesMenu == {100}

\* the answers typed at the report's filter prompt
FiltrosMenu == {"S"}

\* the integers typed at the prompt "Escolha a conta": below every list, just
\* below 1, the first and the last of the longest list, and above every list
Escolhas == {0 - MaxContas, 0, 1, MaxContas, MaxContas + 1}

\* Banco._agencia_padrao
agencia_padrao == "0001"

\* Banco.buscar_cliente: the position of the first client with this CPF, 0
\* for None
buscar_cliente(cpf) ==
    LET achados == {i \in DOMAIN clientes : clientes[i].cpf = cpf}
    IN IF achados = {} THEN 0
       ELSE CHOOSE i \in achados : \A j \in achados : i <= j

\* criar_cliente without the search for the CPF
criar_cliente_SemBusca(nome, cpf) ==
    /\ clientes' = Append(clientes, Cliente(nome, cpf))
    /\ ultima' = Chamada("criar_cliente", 0, 0, "None", relogio, "Cliente",
                         "Cliente criado com sucesso!", <<>>)
    /\ UNCHANGED <<contas, relogio>>

\* Banco.criar_cliente
criar_cliente(nome, cpf) ==
    /\ IF buscar_cliente(cpf) # 0
       THEN /\ ultima' = Chamada("criar_cliente", 0, 0, "None", relogio, "None",
                                 "Já existe cliente com esse CPF!", <<>>)
            /\ UNCHANGED clientes
       ELSE /\ clientes' = Append(clientes, Cliente(nome, cpf))
            /\ ultima' = Chamada("criar_cliente", 0, 0, "None", relogio, "Cliente",
                                 "Cliente criado com sucesso!", <<>>)
    /\ UNCHANGED <<contas, relogio>>

\* criar_conta numbering the accounts of each client from 1
criar_conta_NumeroPorCliente(cpf) ==
    LET cliente == buscar_cliente(cpf)
        numero_conta == Len(clientes[cliente].contas) + 1
    IN /\ IF cliente = 0
          THEN /\ ultima' = Chamada("criar_conta", 0, 0, "None", relogio, "None",
                                    "Cliente não encontrado!", <<>>)
               /\ UNCHANGED <<clientes, contas>>
          ELSE /\ Len(contas) < MaxContas
               /\ contas' = Append(contas, Conta(numero_conta, agencia_padrao, cpf))
               /\ clientes' = [clientes EXCEPT ![cliente].contas = Append(@, Len(contas) + 1)]
               /\ ultima' = Chamada("criar_conta", Len(contas) + 1, 0, "None", relogio,
                                    "Conta", "Conta criada com sucesso!", <<>>)
       /\ UNCHANGED relogio

\* criar_conta without cliente.adicionar_conta
criar_conta_SemAdicionar(cpf) ==
    LET cliente == buscar_cliente(cpf)
        numero_conta == Len(contas) + 1
    IN /\ IF cliente = 0
          THEN /\ ultima' = Chamada("criar_conta", 0, 0, "None", relogio, "None",
                                    "Cliente não encontrado!", <<>>)
               /\ UNCHANGED <<clientes, contas>>
          ELSE /\ Len(contas) < MaxContas
               /\ contas' = Append(contas, Conta(numero_conta, agencia_padrao, cpf))
               /\ UNCHANGED clientes
               /\ ultima' = Chamada("criar_conta", Len(contas) + 1, 0, "None", relogio,
                                    "Conta", "Conta criada com sucesso!", <<>>)
       /\ UNCHANGED relogio

\* criar_conta adding the account to the bank before it looks for the client
criar_conta_CriaAntes(cpf) ==
    LET cliente == buscar_cliente(cpf)
        numero_conta == Len(contas) + 1
    IN /\ IF cliente = 0
          THEN /\ ultima' = Chamada("criar_conta", 0, 0, "None", relogio, "None",
                                    "Cliente não encontrado!", <<>>)
               /\ Len(contas) < MaxContas
               /\ contas' = Append(contas, Conta(numero_conta, agencia_padrao, cpf))
               /\ UNCHANGED clientes
          ELSE /\ Len(contas) < MaxContas
               /\ contas' = Append(contas, Conta(numero_conta, agencia_padrao, cpf))
               /\ clientes' = [clientes EXCEPT ![cliente].contas = Append(@, Len(contas) + 1)]
               /\ ultima' = Chamada("criar_conta", Len(contas) + 1, 0, "None", relogio,
                                    "Conta", "Conta criada com sucesso!", <<>>)
       /\ UNCHANGED relogio

\* Banco.criar_conta; a client's list holds the positions of its accounts in
\* Banco._contas, an account holds the CPF of its client
criar_conta(cpf) ==
    LET cliente == buscar_cliente(cpf)
        numero_conta == Len(contas) + 1
    IN /\ IF cliente = 0
          THEN /\ ultima' = Chamada("criar_conta", 0, 0, "None", relogio, "None",
                                    "Cliente não encontrado!", <<>>)
               /\ UNCHANGED <<clientes, contas>>
          ELSE /\ Len(contas) < MaxContas
               /\ contas' = Append(contas, Conta(numero_conta, agencia_padrao, cpf))
               /\ clientes' = [clientes EXCEPT ![cliente].contas = Append(@, Len(contas) + 1)]
               /\ ultima' = Chamada("criar_conta", Len(contas) + 1, 0, "None", relogio,
                                    "Conta", "Conta criada com sucesso!", <<>>)
       /\ UNCHANGED relogio

\* ContaIterador consumed to the end: one line per account of the bank
ContaIterador(cs) ==
    [i \in DOMAIN cs |->
        [agencia |-> cs[i].agencia, numero |-> cs[i].numero,
         titular |-> clientes[buscar_cliente(cs[i].cliente)].nome, saldo |-> cs[i].saldo]]

\* Banco.listar_contas
listar_contas ==
    /\ ultima' = Chamada("listar_contas", 0, 0, "None", relogio, "None", "CONTAS DO BANCO",
                         ContaIterador(contas))
    /\ UNCHANGED <<clientes, contas, relogio>>

\* Banco.listar_clientes: one line per client, followed by its accounts
listar_clientes ==
    /\ ultima' = Chamada("listar_clientes", 0, 0, "None", relogio, "None", "CLIENTES DO BANCO",
                         [i \in DOMAIN clientes |->
                             [nome |-> clientes[i].nome, cpf |-> clientes[i].cpf,
                              contas |-> [k \in DOMAIN clientes[i].contas |->
                                  [numero |-> contas[clientes[i].contas[k]].numero,
                                   saldo |-> contas[clientes[i].contas[k]].saldo]]]])
    /\ UNCHANGED <<clientes, contas, relogio>>

\* Conta.exibir_extrato on the n-th account: prints the history and the balance
exibir_extrato(n) ==
    /\ ultima' = Chamada("exibir_extrato", n, contas[n].saldo, "None", relogio, "None",
                         "EXTRATO", contas[n].historico)
    /\ UNCHANGED <<clientes, contas, relogio>>

\* lista[indice] of Python for a list held as a sequence: the position in the
\* sequence, 0 for IndexError; a negative indice counts from the end
Indexar(lista, indice) ==
    IF indice >= 0
    THEN IF indice < Len(lista) THEN indice + 1 ELSE 0
    ELSE IF indice >= 0 - Len(lista) THEN Len(lista) + indice + 1 ELSE 0

\* main, options D, S, E and R: the account the option operates on, for the
\* CPF and the account choice typed
SelecionarConta(cpf, escolhida) ==
    LET cliente == buscar_cliente(cpf)
        lista == IF cliente = 0 THEN <<>> ELSE clientes[cliente].contas
        posicao == IF Len(lista) > 1 THEN Indexar(lista, escolhida - 1) ELSE 1
    IN IF cliente = 0
       THEN [resultado |-> "Cliente não encontrado!", conta |-> 0, escolha |-> <<>>]
       ELSE IF lista = <<>>
       THEN [resultado |-> "Cliente não possui contas!", conta |-> 0, escolha |-> <<>>]
       ELSE IF posicao = 0
       THEN [resultado |-> "IndexError", conta |-> 0, escolha |-> <<escolhida>>]
       ELSE [resultado |-> "conta", conta |-> lista[posicao],
             escolha |-> IF Len(lista) > 1 THEN <<escolhida>> ELSE <<>>]

\* main, options D, S, E and R when no account is selected: the message and
\* the next turn, or the IndexError that ends main
SemConta(opcao, cpf, s) ==
    /\ s.resultado # "conta"
    /\ IF s.resultado = "IndexError"
       THEN /\ menu' = Turno(opcao, cpf, s.escolha, "IndexError")
            /\ ultima' = Chamada("main", 0, 0, "None", relogio, "IndexError", "", <<>>)
       ELSE /\ menu' = Turno(opcao, cpf, s.escolha, "rodando")
            /\ ultima' = Chamada("buscar_cliente", 0, 0, "None", relogio, "None",
                                 s.resultado, <<>>)
    /\ UNCHANGED <<clientes, contas, relogio>>

\* the account choice is typed only when it is asked for
Digitada(s, escolhida) == s.escolha = <<>> => escolhida = 1

RECURSIVE Movimentos(_)
\* the entries the histories of the accounts cs hold together
Movimentos(cs) ==
    IF cs = <<>> THEN 0 ELSE Len(Head(cs).historico) + Movimentos(Tail(cs))

\* an operation of the menu fits the explored histories, within one reading of
\* the clock
CabeNoMenu(n) == Movimentos(contas) < MaxMovimentos /\ relogio' = relogio

\* main, option D
OpcaoD(cpf, escolhida, valor) ==
    LET s == SelecionarConta(cpf, escolhida)
    IN /\ Digitada(s, escolhida)
       /\ \/ SemConta("D", cpf, s)
          \/ /\ s.resultado = "conta"
             /\ CabeNoMenu(s.conta)
             /\ menu' = Turno("D", cpf, s.escolha, "rodando")
             /\ depositar(s.conta, valor)

\* main, option S
OpcaoS(cpf, escolhida, valor) ==
    LET s == SelecionarConta(cpf, escolhida)
    IN /\ Digitada(s, escolhida)
       /\ \/ SemConta("S", cpf, s)
          \/ /\ s.resultado = "conta"
             /\ CabeNoMenu(s.conta)
             /\ menu' = Turno("S", cpf, s.escolha, "rodando")
             /\ sacar(s.conta, valor)

\* main, option E
OpcaoE(cpf, escolhida) ==
    LET s == SelecionarConta(cpf, escolhida)
    IN /\ Digitada(s, escolhida)
       /\ \/ SemConta("E", cpf, s)
          \/ /\ s.resultado = "conta"
             /\ menu' = Turno("E", cpf, s.escolha, "rodando")
             /\ exibir_extrato(s.conta)

\* main, option R
OpcaoR(cpf, escolhida, tipo_filtro) ==
    LET s == SelecionarConta(cpf, escolhida)
    IN /\ Digitada(s, escolhida)
       /\ \/ SemConta("R", cpf, s)
          \/ /\ s.resultado = "conta"
             /\ menu' = Turno("R", cpf, s.escolha, "rodando")
             /\ relatorio(s.conta, tipo_filtro)

\* main, option NU
OpcaoNU(nome, cpf) ==
    /\ menu' = Turno("NU", cpf, <<>>, "rodando")
    /\ criar_cliente(nome, cpf)

\* main, option NC
OpcaoNC(cpf) ==
    /\ menu' = Turno("NC", cpf, <<>>, "rodando")
    /\ criar_conta(cpf)

\* main, option LC
OpcaoLC ==
    /\ menu' = Turno("LC", "", <<>>, "rodando")
    /\ listar_contas

\* main, option LU
OpcaoLU ==
    /\ menu' = Turno("LU", "", <<>>, "rodando")
    /\ listar_clientes

\* main, option Q: the loop ends
OpcaoQ ==
    /\ menu' = Turno("Q", "", <<>>, "encerrado")
    /\ ultima' = Chamada("main", 0, 0, "None", relogio, "None",
                         "OBRIGADO POR USAR NOSSO SISTEMA!", <<>>)
    /\ UNCHANGED <<clientes, contas, relogio>>

\* main after Banco('Banco PyDIO'): no client, no account
InitBanco ==
    /\ clientes = <<>>
    /\ contas = <<>>
    /\ relogio = [ano |-> 2024, mes |-> 1, dia |-> 1, seg |-> 0]
    /\ ultima = Chamada("Banco", 0, 0, "None", relogio, "Banco",
                        "BEM-VINDO AO SISTEMA BANCÁRIO", <<>>)
    /\ geradores = [g \in Nomes |-> SemGerador]
    /\ menu = Turno("", "", <<>>, "rodando")

\* a turn of main's loop, while it runs
Rodando == menu.estado = "rodando" /\ UNCHANGED geradores

NextBanco ==
    \/ Rodando /\ \E cpf \in CPFs : \E escolhida \in Escolhas : \E valor \in DepositosMenu :
           OpcaoD(cpf, escolhida, valor)
    \/ Rodando /\ \E cpf \in CPFs : \E escolhida \in Escolhas : \E valor \in SaquesMenu :
           OpcaoS(cpf, escolhida, valor)
    \/ Rodando /\ \E cpf \in CPFs : \E escolhida \in Escolhas : OpcaoE(cpf, escolhida)
    \/ Rodando /\ \E cpf \in CPFs : \E escolhida \in Escolhas : \E tipo_filtro \in FiltrosMenu :
           OpcaoR(cpf, escolhida, tipo_filtro)
    \/ Rodando /\ \E nome \in NomesCliente : \E cpf \in CPFs : OpcaoNU(nome, cpf)
    \/ Rodando /\ \E cpf \in CPFs : OpcaoNC(cpf)
    \/ Rodando /\ OpcaoLC
    \/ Rodando /\ OpcaoLU
    \/ Rodando /\ OpcaoQ

SpecBanco == InitBanco /\ [][NextBanco]_vars

(***************************************************************************)
(* Properties of the registry, of the menu and of the daily cap.           *)
(***************************************************************************)
\* the positions of the registered clients that have the CPF cpf
ComCPF(cpf) == {i \in DOMAIN clientes : clientes[i].cpf = cpf}

\* C12: the accounts of the bank have pairwise distinct numbers, the k-th
\* account created has number k, and every account has branch '0001'.
C12_NumerosSequenciais ==
    /\ \A k \in DOMAIN contas : contas[k].numero = k /\ contas[k].agencia = "0001"
    /\ \A j \in DOMAIN contas : \A k \in DOMAIN contas :
          contas[j].numero = contas[k].numero => j = k

\* the second account of a client has just been created while another
\* client is registered
C12_Witness ==
    /\ ultima.op = "criar_conta" /\ ultima.ret = "Conta"
    /\ Len(contas) = 2 /\ Len(clientes) = 2
    /\ contas[1].cliente = contas[2].cliente

\* C13: criar_cliente with a CPF of a registered client returns None and
\* leaves the clients, their data and the accounts unchanged; no two
\* registered clients ever share a CPF.
C13_ClienteDuplicado ==
    /\ [](\A i \in DOMAIN clientes : \A j \in DOMAIN clientes :
             clientes[i].cpf = clientes[j].cpf => i = j)
    /\ [][(ultima'.op = "criar_cliente" /\ ComCPF(menu'.cpf) # {}) =>
             /\ ultima'.ret = "None"
             /\ ultima'.msg = "Já existe cliente com esse CPF!"
             /\ clientes' = clientes /\ contas' = contas]_vars

\* criar_cliente has just been rejected for the CPF of a client who holds an
\* account, with another client registered
C13_Witness ==
    /\ ultima.op = "criar_cliente" /\ ultima.ret = "None"
    /\ Len(clientes) = 2
    /\ \E i \in ComCPF(menu.cpf) : clientes[i].contas # <<>>

\* C14: for every account and every date, the SAQUE entries stamped with
\* that date never exceed the daily cap, also when the date changes between
\* the count of today's withdrawals and the stamp of the new entry.
C14_LimitePorData ==
    \A n \in DOMAIN contas : \A t \in Instantes :
        SaquesNaData(contas[n].historico, t) <= contas[n].limite_saques

\* a withdrawal counted on the first day, which held 2 withdrawals, has just
\* been accepted and stamped on the second day
C14_Witness ==
    /\ ultima.op = "sacar" /\ ultima.ret = "True"
    /\ ultima.hoje.dia = 1 /\ relogio.dia = 2
    /\ SaquesNaData(contas[ultima.conta].historico, ultima.hoje) = 2
    /\ SaquesNaData(contas[ultima.conta].historico, relogio) = 1

\* C15: the balance or the history of an account changes only in a step that
\* is an accepted deposit or withdrawal on that account; every other step -
\* statement, report, listings, client creation, account creation, refused
\* operations, operations on another account - leaves them as they were.
C15_SoMovimentoAltera ==
    [][\A n \in DOMAIN contas :
          /\ n \in DOMAIN contas'
          /\ (contas'[n].saldo # contas[n].saldo
                  \/ contas'[n].historico # contas[n].historico) =>
                 /\ Movimento(ultima') /\ ultima'.ret = "True" /\ ultima'.conta = n
                 /\ menu'.opcao \in {"D", "S"}]_vars

\* a deposit has just been accepted on the second account while the first
\* account holds an entry
C15_Witness ==
    /\ ultima.op = "depositar" /\ ultima.ret = "True" /\ ultima.conta = 2
    /\ Len(contas[1].historico) = 1 /\ Len(contas[2].historico) = 1

\* C16 as stated: in options D, S, E and R, for a client who holds n > 1
\* accounts, the choice k in 1..n operates on the k-th account of the
\* client's list, and every other integer raises an uncaught error and
\* changes no account.
C16_EscolhaForaDaLista ==
    [][(menu'.opcao \in {"D", "S", "E", "R"} /\ menu'.escolha # <<>>) =>
          LET lista == clientes[CHOOSE i \in ComCPF(menu'.cpf) : TRUE].contas
              k == menu'.escolha[1]
          IN IF k \in 1..Len(lista)
             THEN menu'.estado = "rodando" /\ ultima'.conta = lista[k]
             ELSE menu'.estado = "IndexError" /\ contas' = contas]_vars

\* the places <<client, position>> of the clients' lists that hold account k
NasListas(k) ==
    {par \in {<<i, j>> : i \in DOMAIN clientes, j \in 1..MaxContas + 1} :
        par[2] \in DOMAIN clientes[par[1]].contas /\ clientes[par[1]].contas[par[2]] = k}

\* C17: every account of the bank is in the account list of exactly one
\* registered client, exactly once, and that client is the account's owner;
\* every account in a client's list is an account of the bank.
C17_ContaDeUmCliente ==
    /\ \A k \in DOMAIN contas :
          /\ Cardinality(NasListas(k)) = 1
          /\ \A par \in NasListas(k) : clientes[par[1]].cpf = contas[k].cliente
    /\ \A i \in DOMAIN clientes : \A j \in DOMAIN clientes[i].contas :
          clientes[i].contas[j] \in DOMAIN contas

\* two clients are registered and each holds one account
C17_Witness ==
    /\ Len(clientes) = 2 /\ Len(contas) = 2
    /\ Len(clientes[1].contas) = 1 /\ Len(clientes[2].contas) = 1

\* C18: criar_conta with a CPF of no registered client returns None and
\* creates nothing - the accounts of the bank and of every client are
\* unchanged - and a criar_conta that succeeds appends one account whose
\* number follows the number of accounts the bank held.
C18_ContaSemCliente ==
    [][ultima'.op = "criar_conta" =>
          IF ComCPF(menu'.cpf) = {}
          THEN /\ ultima'.ret = "None"
               /\ contas' = contas /\ clientes' = clientes
          ELSE /\ ultima'.ret = "Conta"
               /\ Len(contas') = Len(contas) + 1
               /\ contas'[Len(contas')].numero = Len(contas) + 1
               /\ SubSeq(contas', 1, Len(contas)) = contas]_vars

\* criar_conta has just failed for an unregistered CPF in a bank that holds
\* an account
C18_Witness ==
    /\ ultima.op = "criar_conta" /\ ultima.ret = "None"
    /\ ComCPF(menu.cpf) = {}
    /\ Len(contas) = 1

====
